---- MODULE Spec2Model ----
(***************************************************************************)
(* Model of firstWebApp/main.go: main registers one handler closure for    *)
(* the pattern "/" on the default mux and calls ListenAndServe(":8080").   *)
(* The HTTP runtime starts one goroutine per accepted request; each runs   *)
(* the closure: Fprintf to its ResponseWriter, an optional Printf of the   *)
(* error, and an unconditional Println of the byte count.  The ResponseWriter *)
(* outcome, the bind outcome and the arrival of requests and of a kill     *)
(* signal are choices of the environment.                                  *)
(***************************************************************************)
EXTENDS Integers, Sequences, FiniteSets, TLC

\* ---- bounds ----
MaxReq == 2          \* number of requests the environment sends

\* ---- inputs the environment draws from ----
Methods == {"GET", "POST"}
Paths == {"/", "/favicon.ico"}
\* a POST carries a form body, a GET carries none
BodyOf(m) == IF m = "POST" THEN "x=1" ELSE ""
WriteErrors == {"write: broken pipe"}
\* byte counts a failed write may report: a short write cut off mid-string
ShortCounts == {7}

\* the requests sent: a GET of either path, and a POST to the root
Requests ==
    {r \in [method : Methods, path : Paths, body : {BodyOf(m) : m \in Methods}] :
        /\ r.body = BodyOf(r.method)
        /\ r.method = "POST" => r.path = "/"}
NoRequest == [method |-> "", path |-> "", body |-> ""]
Tasks == 1..MaxReq

\* ---- main.go literals ----
Pattern == "/"
Greeting == "Hello, world whatsup"
ErrorFormat == "error : "
CountFormat == "Number of bytes written "
\* what %v prints for a nil error; also the model's nil error value
NilErr == "<nil>"
NotFoundBody == "404 page not found\n"

VARIABLES
    pcMain,      \* where main is: HandleFunc, ListenAndServe, Serving, Returned, Exited, Killed
    mux,         \* patterns registered on the default mux
    bindResult,  \* outcome of the bind on :8080: none, ok, failed
    accepted,    \* number of requests accepted so far; request i is run by task i
    req,         \* the request of each task
    handler,     \* the handler each request was dispatched to
    pc,          \* where each task is: idle, Fprintf, Printf, Println, done
    resp,        \* each connection's response stream: chunks [by, text]
    arg,         \* the string each task passed to its ResponseWriter
    n,           \* the closure's n
    err,         \* the closure's err
    attempts,    \* number of Write calls each task made
    stdout,      \* the process's standard output: chunks [by, kind, text]
    failedBefore \* history: the tasks whose write had failed when request i was accepted

vars == <<pcMain, mux, bindResult, accepted, req, handler, pc, resp, arg,
          n, err, attempts, stdout, failedBefore>>

\* ---- pure helpers ----
Digits == "0123456789"

RECURSIVE Itoa_reversed(_)
\* variant: the digits are emitted least significant first
Itoa_reversed(k) ==
    IF k < 10 THEN SubSeq(Digits, k + 1, k + 1)
    ELSE SubSeq(Digits, (k % 10) + 1, (k % 10) + 1) \o Itoa_reversed(k \div 10)

RECURSIVE Itoa(_)
\* the %d verb: decimal digits of a non-negative int
Itoa(k) ==
    IF k < 10 THEN SubSeq(Digits, k + 1, k + 1)
    ELSE Itoa(k \div 10) \o SubSeq(Digits, (k % 10) + 1, (k % 10) + 1)

\* fmt.Sprintf("Number of bytes written %d", n)
Sprintf(k) == CountFormat \o Itoa(k)

\* fmt.Println(s): the operand followed by a newline, one write to stdout
PrintlnText(s) == s \o "\n"

\* fmt.Printf("error : %v", err): no trailing newline
PrintfText(e) == ErrorFormat \o e

RECURSIVE Concat(_)
\* the bytes on a stream: the chunks written to it, in order
Concat(chunks) ==
    IF chunks = <<>> THEN "" ELSE Head(chunks).text \o Concat(Tail(chunks))

\* the tasks that have written to a stream
WritersOf(chunks) == {chunks[k].by : k \in 1..Len(chunks)}

\* variant: the closure echoes the request path after the greeting
HandlerBody_echo(r) == Greeting \o r.path

\* the string the closure passes to the ResponseWriter for request r
HandlerBody(r) == Greeting

\* variant: every task writes to the first connection's stream
WriteTarget_shared(i) == 1

\* variant: every task writes to its neighbour's stream
WriteTarget_next(i) == (i % MaxReq) + 1

\* the response stream the closure's w refers to in task i
WriteTarget(i) == i

\* DefaultServeMux lookup: a pattern ending in "/" matches every path
MuxHandler(m, path) == IF Pattern \in m THEN "greeting" ELSE "NotFound"

\* ---- initial state: process started, main at line 14 ----
Init ==
    /\ pcMain = "HandleFunc"
    /\ mux = {}
    /\ bindResult = "none"
    /\ accepted = 0
    /\ req = [i \in Tasks |-> NoRequest]
    /\ handler = [i \in Tasks |-> "none"]
    /\ pc = [i \in Tasks |-> "idle"]
    /\ resp = [i \in Tasks |-> <<>>]
    /\ arg = [i \in Tasks |-> ""]
    /\ n = [i \in Tasks |-> 0]
    /\ err = [i \in Tasks |-> NilErr]
    /\ attempts = [i \in Tasks |-> 0]
    /\ stdout = <<>>
    /\ failedBefore = [i \in Tasks |-> {}]

\* ---- main ----
\* variant: main goes on to listen without having registered the handler
HandleFunc_late ==
    /\ pcMain = "HandleFunc"
    /\ pcMain' = "ListenAndServe"
    /\ UNCHANGED <<mux, bindResult, accepted, req, handler, pc, resp, arg, n,
                   err, attempts, stdout, failedBefore>>

\* line 14: http.HandleFunc("/", closure)
HandleFunc ==
    /\ pcMain = "HandleFunc"
    /\ mux' = mux \cup {Pattern}
    /\ pcMain' = "ListenAndServe"
    /\ UNCHANGED <<bindResult, accepted, req, handler, pc, resp, arg, n,
                   err, attempts, stdout, failedBefore>>

\* line 23: the bind on :8080 succeeds; main blocks inside ListenAndServe
ListenOk ==
    /\ pcMain = "ListenAndServe"
    /\ bindResult' = "ok"
    /\ pcMain' = "Serving"
    /\ UNCHANGED <<mux, accepted, req, handler, pc, resp, arg, n, err,
                   attempts, stdout, failedBefore>>

\* variant: a failed bind falls back to serving on another address
ListenFail_fallback ==
    /\ pcMain = "ListenAndServe"
    /\ bindResult' = "failed"
    /\ pcMain' = "Serving"
    /\ UNCHANGED <<mux, accepted, req, handler, pc, resp, arg, n, err,
                   attempts, stdout, failedBefore>>

\* line 23: the bind fails; ListenAndServe returns its error, which is dropped
ListenFail ==
    /\ pcMain = "ListenAndServe"
    /\ bindResult' = "failed"
    /\ pcMain' = "Returned"
    /\ UNCHANGED <<mux, accepted, req, handler, pc, resp, arg, n, err,
                   attempts, stdout, failedBefore>>

\* line 24: main returns and the process exits
MainReturn ==
    /\ pcMain = "Returned"
    /\ pcMain' = "Exited"
    /\ UNCHANGED <<mux, bindResult, accepted, req, handler, pc, resp, arg, n,
                   err, attempts, stdout, failedBefore>>

\* the environment terminates the process (signal)
Kill ==
    /\ pcMain \notin {"Exited", "Killed"}
    /\ pcMain' = "Killed"
    /\ UNCHANGED <<mux, bindResult, accepted, req, handler, pc, resp, arg, n,
                   err, attempts, stdout, failedBefore>>

\* the tasks whose Write call has returned an error
FailedTasks == {j \in Tasks : pc[j] \in {"Printf", "Println", "done"} /\ err[j] # NilErr}

\* variant: the server serves a single request and ListenAndServe returns
Accept_once(r) ==
    /\ pcMain = "Serving"
    /\ accepted < MaxReq
    /\ LET i == accepted + 1
       IN /\ accepted' = i
          /\ req' = [req EXCEPT ![i] = r]
          /\ handler' = [handler EXCEPT ![i] = "greeting"]
          /\ failedBefore' = [failedBefore EXCEPT ![i] = FailedTasks]
          /\ pc' = [pc EXCEPT ![i] = "Fprintf"]
    /\ pcMain' = "Returned"
    /\ UNCHANGED <<mux, bindResult, resp, arg, n, err, attempts, stdout>>

\* ---- the HTTP runtime: accept a request and dispatch it ----
Accept(r) ==
    /\ pcMain = "Serving"
    /\ accepted < MaxReq
    /\ LET i == accepted + 1
           h == MuxHandler(mux, r.path)
       IN /\ accepted' = i
          /\ req' = [req EXCEPT ![i] = r]
          /\ handler' = [handler EXCEPT ![i] = h]
          /\ failedBefore' = [failedBefore EXCEPT ![i] = FailedTasks]
          /\ IF h = "greeting"
             THEN /\ pc' = [pc EXCEPT ![i] = "Fprintf"]
                  /\ resp' = resp
             ELSE /\ pc' = [pc EXCEPT ![i] = "done"]
                  /\ resp' = [resp EXCEPT ![i] =
                                 Append(@, [by |-> 0, text |-> NotFoundBody])]
    /\ UNCHANGED <<pcMain, mux, bindResult, arg, n, err, attempts, stdout>>

\* ---- the handler closure, lines 15-19, run by task i ----
\* variant: a failed write is retried
AfterWrite_retry(e) == IF e # NilErr THEN "Fprintf" ELSE "Println"

\* where the closure goes after a write that returned error e
AfterWrite(e) == IF e # NilErr THEN "Printf" ELSE "Println"

\* line 15: n, err := fmt.Fprintf(w, "Hello, world whatsup"); line 16: the test.
\* Fprintf formats the string and makes one Write call; the writer reports
\* either the whole length and no error, or a short count and an error.
Fprintf(i, k, e) ==
    /\ pcMain = "Serving"
    /\ pc[i] = "Fprintf"
    /\ LET s == HandlerBody(req[i])
           t == WriteTarget(i)
       IN /\ \/ e = NilErr /\ k = Len(s)
             \/ e \in WriteErrors /\ k \in ShortCounts /\ k < Len(s)
          /\ resp' = [resp EXCEPT ![t] =
                         Append(@, [by |-> i, text |-> SubSeq(s, 1, k)])]
    /\ arg' = [arg EXCEPT ![i] = HandlerBody(req[i])]
    /\ n' = [n EXCEPT ![i] = k]
    /\ err' = [err EXCEPT ![i] = e]
    /\ attempts' = [attempts EXCEPT ![i] = @ + 1]
    /\ pc' = [pc EXCEPT ![i] = AfterWrite(e)]
    /\ UNCHANGED <<pcMain, mux, bindResult, accepted, req, handler, stdout,
                   failedBefore>>

\* variant: the error branch logs and exits the process (log.Fatalf)
Printf_fatal(i) ==
    /\ pcMain = "Serving"
    /\ pc[i] = "Printf"
    /\ stdout' = Append(stdout, [by |-> i, kind |-> "error",
                                 text |-> ErrorFormat \o err[i]])
    /\ pcMain' = "Exited"
    /\ UNCHANGED <<mux, bindResult, accepted, req, handler, pc, resp, arg,
                   n, err, attempts, failedBefore>>

\* line 17: fmt.Printf("error : %v", err), then fall through to line 19
Printf(i) ==
    /\ pcMain = "Serving"
    /\ pc[i] = "Printf"
    /\ stdout' = Append(stdout, [by |-> i, kind |-> "error",
                                 text |-> PrintfText(err[i])])
    /\ pc' = [pc EXCEPT ![i] = "Println"]
    /\ UNCHANGED <<pcMain, mux, bindResult, accepted, req, handler, resp, arg,
                   n, err, attempts, failedBefore>>

\* line 19: fmt.Println(fmt.Sprintf("Number of bytes written %d", n)); return
Println(i) ==
    /\ pcMain = "Serving"
    /\ pc[i] = "Println"
    /\ stdout' = Append(stdout, [by |-> i, kind |-> "count",
                                 text |-> PrintlnText(Sprintf(n[i]))])
    /\ pc' = [pc EXCEPT ![i] = "done"]
    /\ UNCHANGED <<pcMain, mux, bindResult, accepted, req, handler, resp, arg,
                   n, err, attempts, failedBefore>>

Next ==
    \/ HandleFunc
    \/ ListenOk
    \/ ListenFail
    \/ MainReturn
    \/ Kill
    \/ \E r \in Requests : Accept(r)
    \/ \E i \in Tasks, k \in 0..Len(Greeting), e \in WriteErrors \cup {NilErr} :
          Fprintf(i, k, e)
    \/ \E i \in Tasks : Printf(i)
    \/ \E i \in Tasks : Println(i)

Spec == Init /\ [][Next]_vars

\* ---- vocabulary of the properties ----
\* task i ran the greeting closure and its Write call has returned
Wrote(i) == handler[i] = "greeting" /\ pc[i] \in {"Printf", "Println", "done"}

\* task i's write succeeded / failed
Succeeded(i) == Wrote(i) /\ err[i] = NilErr
Failed(i) == Wrote(i) /\ err[i] # NilErr

\* task i's closure has returned
Returned(i) == handler[i] = "greeting" /\ pc[i] = "done"

\* positions in stdout of task i's records of one kind
Records(i, kind) ==
    {k \in 1..Len(stdout) : stdout[k].by = i /\ stdout[k].kind = kind}

\* ---- C1 ----
\* C1 (as stated): the count record logged for a successful write reports
\* 21 bytes, the claimed length of "Hello, world whatsup".
C1_LoggedCountIs21 ==
    \A i \in Tasks : \A k \in Records(i, "count") :
        Succeeded(i) =>
            /\ n[i] = 21
            /\ stdout[k].text = "Number of bytes written 21\n"

\* C1 (amended): the count record logged for a successful write reports the
\* byte length of "Hello, world whatsup", and that length is 20 bytes.
C1_LoggedCountIs20 ==
    \A i \in Tasks : \A k \in Records(i, "count") :
        Succeeded(i) =>
            /\ n[i] = Len(Greeting)
            /\ Len(Greeting) = 20
            /\ stdout[k].text = "Number of bytes written 20\n"

C1_Witness ==
    \E i \in Tasks : Succeeded(i) /\ Records(i, "count") # {}

\* ---- C2 ----
\* C2: a returned request has the count record iff its write succeeded and
\* the error record iff its write failed: exactly one of the two.
C2_ExactlyOneRecord ==
    \A i \in Tasks :
        Returned(i) =>
            /\ (Records(i, "count") # {}) <=> (err[i] = NilErr)
            /\ (Records(i, "error") # {}) <=> (err[i] # NilErr)

\* ---- C3 ----
\* C3: any two requests the closure has answered, whatever their method, path
\* and body, were answered with the same string, the greeting literal.
C3_ConstantBody ==
    \A i, j \in Tasks :
        Wrote(i) /\ Wrote(j) => arg[i] = arg[j] /\ arg[i] = Greeting

C3_Witness ==
    \E i, j \in Tasks :
        /\ Wrote(i) /\ Wrote(j)
        /\ req[i].method # req[j].method
        /\ req[i].path # req[j].path
        /\ req[i].body # req[j].body

\* ---- C5 ----
\* C5: under every interleaving, the stream of a request whose write succeeded
\* holds exactly the greeting, all of it written by that request's own task.
C5_OwnCompleteBody ==
    \A i \in Tasks :
        Succeeded(i) =>
            /\ Concat(resp[i]) = Greeting
            /\ WritersOf(resp[i]) = {i}

\* two tasks in flight at once, both past a successful write
C5_Witness ==
    \E i, j \in Tasks :
        /\ i # j
        /\ pc[i] = "Println" /\ pc[j] = "Println"
        /\ Succeeded(i) /\ Succeeded(j)

\* ---- C9 ----
\* C9: each request's write is attempted once and never again, also after a
\* failure, and a request's records appear on stdout only after its write
\* attempt has returned.
C9_WriteOnce ==
    \A i \in Tasks :
        /\ attempts[i] <= 1
        /\ Len(resp[i]) <= 1
        /\ Wrote(i) => attempts[i] = 1
        /\ (Records(i, "count") \cup Records(i, "error") # {}) =>
              attempts[i] = 1 /\ pc[i] \in {"Println", "done"}

C9_Witness ==
    \E i \in Tasks : Returned(i) /\ Failed(i) /\ attempts[i] = 1

\* ---- C10 ----
\* C10: whenever the server can accept a request the greeting handler is
\* already registered for "/", and every accepted request was dispatched to it.
C10_RegisteredBeforeServing ==
    /\ pcMain = "Serving" => Pattern \in mux
    /\ \A i \in Tasks : i <= accepted => handler[i] = "greeting"

C10_Witness ==
    \E i \in Tasks : i <= accepted /\ req[i].path # Pattern /\ Wrote(i)

\* ---- C4 ----
\* everything that belongs to task i
TaskState(i) ==
    <<req[i], handler[i], pc[i], resp[i], arg[i], n[i], err[i], attempts[i]>>

\* a step of a task whose write has failed: the failing Fprintf itself, the
\* Printf, or the Println that follows
FailedTaskStep(i) == Failed(i)' /\ TaskState(i)' # TaskState(i)

\* C4: a step of a task whose write failed leaves the server serving and
\* leaves every other task as it was; a request accepted after a failure is
\* dispatched to the greeting closure by a server the program has not stopped,
\* and its stream holds the full greeting once its own write has succeeded.
C4_FailureContained ==
    /\ [][\A i \in Tasks :
            FailedTaskStep(i) =>
                /\ pcMain = "Serving" /\ pcMain' = "Serving"
                /\ \A j \in Tasks \ {i} : TaskState(j)' = TaskState(j)]_vars
    /\ [](\A j \in Tasks :
            failedBefore[j] # {} =>
                /\ pcMain \in {"Serving", "Killed"}
                /\ handler[j] = "greeting"
                /\ Succeeded(j) => Concat(resp[j]) = Greeting)

C4_Witness ==
    \E j \in Tasks :
        /\ failedBefore[j] # {}
        /\ Returned(j) /\ Succeeded(j)
        /\ pcMain = "Serving"

\* ---- C6 ----
\* C6: a request is accepted only after a successful bind; after a failed
\* bind nothing is accepted and the process only goes on to terminate: the
\* bind is not retried and no other address is tried.
C6_BindFailureIsFatal ==
    /\ [](/\ accepted > 0 => bindResult = "ok"
          /\ bindResult = "failed" =>
                /\ accepted = 0
                /\ pcMain \in {"Returned", "Exited", "Killed"})
    /\ [][bindResult = "failed" =>
            /\ bindResult' = "failed"
            /\ pcMain' \in {"Exited", "Killed"}]_vars

C6_Witness == bindResult = "failed" /\ pcMain = "Exited" /\ accepted = 0

\* ---- C7 ----
\* some other task's chunk lies between two chunks of one task on stdout
SplitOutput ==
    \E a, b, c \in 1..Len(stdout) :
        a < b /\ b < c /\ stdout[a].by = stdout[c].by /\ stdout[b].by # stdout[a].by

\* C7 (as stated): no stream, stdout included, is touched by more than one
\* task, and no task's output is split by another task's output.
C7_NoSharedResource ==
    /\ Cardinality(WritersOf(stdout)) <= 1
    /\ \A i \in Tasks : Cardinality(WritersOf(resp[i])) <= 1
    /\ ~SplitOutput

\* C7 (amended): each response stream is written by its own task alone; the
\* standard output is shared by all tasks, every chunk on it being the whole
\* text of one print call of the task that wrote it.
C7_OnlyStdoutShared ==
    /\ \A i \in Tasks : WritersOf(resp[i]) \subseteq {i}
    /\ \A k \in 1..Len(stdout) :
          LET i == stdout[k].by
          IN /\ i \in Tasks
             /\ \/ stdout[k].text = ErrorFormat \o err[i]
                \/ stdout[k].text = CountFormat \o Itoa(n[i]) \o "\n"

\* a failed request's two records separated by another task's record
C7_Witness ==
    /\ SplitOutput
    /\ Cardinality(WritersOf(stdout)) > 1
    /\ \A i \in Tasks : Wrote(i) => WritersOf(resp[i]) = {i}

====
